---------------------------- MODULE Spec2Model ----------------------------
(***************************************************************************)
(* A model of four files of ConKit:                                        *)
(*   conkit/io/FreeContactIO.py    FreeContactParser.read / .write         *)
(*   conkit/io/BCLContactIO.py     BCLContactParser.read / .write          *)
(*   conkit/command_line/conkit_predict.py   main                          *)
(*   conkit/plot/contactmap.py     ContactMapFigure                        *)
(*                                                                         *)
(* Text is modelled at the level of characters: a string is a sequence of  *)
(* one-character strings, a line is a string that carries its own line     *)
(* terminator, a file is a sequence of lines.                              *)
(***************************************************************************)
EXTENDS Integers, Sequences, FiniteSets, TLC

VARIABLES
    \* ---- the codecs (Spec)
    op,         \* the codec call made last
    f_in,       \* the lines of the handle given to the last read
    lines_read, \* how many lines the last read took from its handle
    hierarchy,  \* the hierarchy a read returned or a caller built (NoHierarchy: none)
    h_from,     \* where that hierarchy comes from
    f_pre,      \* the content of the output handle before the last write
    f_out,      \* the content of the output handle after the last write
    err         \* the exception the last call raised (NoError: it returned)

codec_vars == <<op, f_in, lines_read, hierarchy, h_from, f_pre, f_out, err>>

VARIABLES
    \* ---- the figure (SpecDraw)
    fig_op,     \* the call on the figure made last
    figure,     \* the ContactMapFigure (NoFigure: none was built)
    drawn,      \* what the last draw() did: its scatter calls, limits and ticks
    warned,     \* the warnings emitted so far, in order
    fig_err,    \* the exception the last call on the figure raised
    scatter_checks  \* whether the installed matplotlib refuses colours that
                    \* are not as many as the points (later versions do)

fig_vars == <<fig_op, figure, drawn, warned, fig_err, scatter_checks>>

VARIABLES
    \* ---- conkit-predict (SpecMain)
    pc,         \* where main is
    args,       \* the parsed command line
    files,      \* the files that exist in the working directory
    jon_fname,  \* the file main takes for the Jones alignment
    trace,      \* what main has done so far, in order
    cmap_in,    \* the top map of the matrix file, as read
    seq_len,    \* the seq_len of the top sequence of the alignment
    cmap,       \* the map after the top-L selection
    main_err    \* the exception main ended with

main_vars == <<pc, args, files, jon_fname, trace, cmap_in, seq_len, cmap, main_err>>

vars == <<codec_vars, fig_vars, main_vars>>

\* ------------------------------------------------------------------ bounds

\* The longest file handed to a read, in lines.
MaxLines == 2

\* The most ContactMaps in a ContactFile a caller builds.
MaxMaps == 2

\* The most contacts in the map a figure is built from.
MaxPlotted == 2

\* The most contacts in the matrix file the pipeline reads.
MaxContacts == 4

\* The longest sequence of the alignment, in residues.
MaxSeqLen == 3

\* ------------------------------------------------------- Python built-ins

Digits == <<"0", "1", "2", "3", "4", "5", "6", "7", "8", "9">>

WhiteSpace == {" ", "\t", "\n", "\r"}

IsDigit(c) == \E d \in 1..10 : Digits[d] = c

DigitVal(c) == (CHOOSE d \in 1..10 : Digits[d] = c) - 1

NoError == [type |-> "none", msg |-> "", literal |-> <<>>]

\* A raised exception: its class, its message and the literal the message quotes.
Raise(type, msg, literal) == [type |-> type, msg |-> msg, literal |-> literal]

\* str.rstrip(): the string without its trailing whitespace.
RECURSIVE rstrip(_)
rstrip(s) ==
    IF s = <<>> THEN <<>>
    ELSE IF s[Len(s)] \in WhiteSpace THEN rstrip(SubSeq(s, 1, Len(s) - 1))
    ELSE s

\* re.compile(r'\s+').split(s): the pieces between the maximal runs of
\* whitespace; a leading or trailing run leaves an empty piece at that end.
RECURSIVE SplitFrom(_, _, _, _)
SplitFrom(s, i, cur, inRun) ==
    IF i > Len(s) THEN <<cur>>
    ELSE IF s[i] \in WhiteSpace
         THEN IF inRun THEN SplitFrom(s, i + 1, cur, TRUE)
              ELSE <<cur>> \o SplitFrom(s, i + 1, <<>>, TRUE)
         ELSE SplitFrom(s, i + 1, Append(cur, s[i]), FALSE)

RE_SPLIT_split(s) == SplitFrom(s, 1, <<>>, FALSE)

\* The value of a string of decimal digits.
RECURSIVE DigitsVal(_)
DigitsVal(s) ==
    IF s = <<>> THEN 0
    ELSE 10 * DigitsVal(SubSeq(s, 1, Len(s) - 1)) + DigitVal(s[Len(s)])

AllDigits(s) == \A i \in 1..Len(s) : IsDigit(s[i])

HasSign(s) == s # <<>> /\ s[1] \in {"+", "-"}

Unsigned(s) == IF HasSign(s) THEN Tail(s) ELSE s

\* int(s) accepts an optional sign and one or more digits.
IntOk(s) == Unsigned(s) # <<>> /\ AllDigits(Unsigned(s))

IntVal(s) == IF s[1] = "-" THEN 0 - DigitsVal(Unsigned(s)) ELSE DigitsVal(Unsigned(s))

\* The decimal digits of a natural number: str(n).
RECURSIVE NatStr(_)
NatStr(n) == IF n < 10 THEN <<Digits[n + 1]>> ELSE Append(NatStr(n \div 10), Digits[(n % 10) + 1])

IntStr(n) == IF n < 0 THEN <<"-">> \o NatStr(0 - n) ELSE NatStr(n)

\* The place of the decimal point in s, or 0.
PointAt(s) == IF \E i \in 1..Len(s) : s[i] = "." THEN CHOOSE i \in 1..Len(s) : s[i] = "." ELSE 0

IntPart(s) == IF PointAt(s) = 0 THEN s ELSE SubSeq(s, 1, PointAt(s) - 1)

FracPart(s) == IF PointAt(s) = 0 THEN <<>> ELSE SubSeq(s, PointAt(s) + 1, Len(s))

\* float(s) on plain decimal notation: an optional sign, digits with at most
\* one point, at least one digit.  (Exponents, inf and nan are not written
\* with the characters the model feeds.)
FloatOk(s) ==
    LET u == Unsigned(s) IN
    /\ AllDigits(IntPart(u))
    /\ AllDigits(FracPart(u))
    /\ Len(IntPart(u)) + Len(FracPart(u)) > 0

RECURSIVE StripZeros(_)
StripZeros(s) ==
    IF s # <<>> /\ s[Len(s)] = "0" THEN StripZeros(SubSeq(s, 1, Len(s) - 1)) ELSE s

\* A float is kept as the decimal number it stands for: a sign, the integer
\* part and the fraction digits without trailing zeros.  This is exact for
\* the short decimals of the model, for which float() followed by str() gives
\* the shortest decimal notation of the value.
FloatVal(s) ==
    LET u == Unsigned(s) IN
    [neg |-> s[1] = "-", int |-> DigitsVal(IntPart(u)), frac |-> StripZeros(FracPart(u))]

\* str(x) of a float x, as "{raw_score}".format gives it: always with a point
\* and at least one fraction digit.
FloatStr(x) ==
    (IF x.neg THEN <<"-">> ELSE <<>>) \o NatStr(x.int) \o <<".">>
        \o (IF x.frac = <<>> THEN <<"0">> ELSE x.frac)

\* os.linesep on the POSIX platforms the pipeline runs on.
os_linesep == <<"\n">>

\* ------------------------------------------------------- the entity model

NoHierarchy == [kind |-> "None"]

\* Contact(res1_seq, res2_seq, raw_score), then .res1 and .res2 assigned.
Contact(res1_seq, res2_seq, raw_score, res1, res2) ==
    [res1_seq |-> res1_seq, res2_seq |-> res2_seq, raw_score |-> raw_score,
     res1 |-> res1, res2 |-> res2]

\* A Contact's key in its map: the residue pair, in either order.
SameContact(c, d) ==
    \/ c.res1_seq = d.res1_seq /\ c.res2_seq = d.res2_seq
    \/ c.res1_seq = d.res2_seq /\ c.res2_seq = d.res1_seq

\* ContactMap.add(contact) on the contacts of a map: a key already there is
\* an error, otherwise the contact goes last.
ContactMap_add(contacts, contact) ==
    IF \E i \in 1..Len(contacts) : SameContact(contacts[i], contact)
    THEN [err |-> Raise("DuplicateKeyError", "key exists", <<>>), contacts |-> contacts]
    ELSE [err |-> NoError, contacts |-> Append(contacts, contact)]

ContactMap(id, contacts) == [kind |-> "ContactMap", id |-> id, contacts |-> contacts]

ContactFile(id, method, maps) ==
    [kind |-> "ContactFile", id |-> id, method |-> method, maps |-> maps]

\* _ContactFileParser._reconstruct(hierarchy): a ContactFile as it is, a
\* ContactMap or a Contact wrapped into a ContactFile of its own.
Reconstruct(h) ==
    IF h.kind = "ContactFile" THEN h
    ELSE IF h.kind = "ContactMap" THEN ContactFile("conkit", "", <<h>>)
    ELSE ContactFile("conkit", "", <<ContactMap("1", <<h.contact>>)>>)

\* ------------------------------------------------------ FreeContactIO.py

\* FreeContactLine with the score taken from the sixth field instead of the
\* fifth.
FreeContactLine_ScoreFromLast(line, contacts) ==
    LET f == RE_SPLIT_split(line) IN
    IF Len(f) < 6
    THEN [err |-> Raise("ValueError", "not enough values to unpack", <<>>), contacts |-> contacts]
    ELSE IF Len(f) > 6
    THEN [err |-> Raise("ValueError", "too many values to unpack", <<>>), contacts |-> contacts]
    ELSE IF ~IntOk(f[1])
    THEN [err |-> Raise("ValueError", "invalid literal for int()", f[1]), contacts |-> contacts]
    ELSE IF ~IntOk(f[3])
    THEN [err |-> Raise("ValueError", "invalid literal for int()", f[3]), contacts |-> contacts]
    ELSE IF ~FloatOk(f[6])
    THEN [err |-> Raise("ValueError", "could not convert string to float", f[6]), contacts |-> contacts]
    ELSE ContactMap_add(contacts, Contact(IntVal(f[1]), IntVal(f[3]), FloatVal(f[6]), f[2], f[4]))

\* One pass of the loop body of FreeContactParser.read on a non-blank,
\* rstripped line: the 6-way unpacking, the conversions, ContactMap.add.
FreeContactLine(line, contacts) ==
    LET f == RE_SPLIT_split(line) IN
    IF Len(f) < 6
    THEN [err |-> Raise("ValueError", "not enough values to unpack", <<>>), contacts |-> contacts]
    ELSE IF Len(f) > 6
    THEN [err |-> Raise("ValueError", "too many values to unpack", <<>>), contacts |-> contacts]
    ELSE IF ~IntOk(f[1])
    THEN [err |-> Raise("ValueError", "invalid literal for int()", f[1]), contacts |-> contacts]
    ELSE IF ~IntOk(f[3])
    THEN [err |-> Raise("ValueError", "invalid literal for int()", f[3]), contacts |-> contacts]
    ELSE IF ~FloatOk(f[5])
    THEN [err |-> Raise("ValueError", "could not convert string to float", f[5]), contacts |-> contacts]
    ELSE ContactMap_add(contacts, Contact(IntVal(f[1]), IntVal(f[3]), FloatVal(f[5]), f[2], f[4]))

\* The loop of FreeContactParser.read from line i on.
RECURSIVE FreeContactLoop(_, _, _)
FreeContactLoop(f_handle, i, contacts) ==
    IF i > Len(f_handle) THEN [err |-> NoError, contacts |-> contacts, lines_read |-> i - 1]
    ELSE LET line == rstrip(f_handle[i]) IN
         IF line = <<>> THEN FreeContactLoop(f_handle, i + 1, contacts)
         ELSE LET r == FreeContactLine(line, contacts) IN
              IF r.err # NoError THEN [err |-> r.err, contacts |-> r.contacts, lines_read |-> i]
              ELSE FreeContactLoop(f_handle, i + 1, r.contacts)

FreeContactParser_read(f_handle, f_id) ==
    LET r == FreeContactLoop(f_handle, 1, <<>>) IN
    IF r.err # NoError
    THEN [err |-> r.err, hierarchy |-> NoHierarchy, lines_read |-> r.lines_read]
    ELSE [err |-> NoError,
          hierarchy |-> ContactFile(f_id, "Contact map predicted using FreeContact",
                                    <<ContactMap("map_1", r.contacts)>>),
          lines_read |-> r.lines_read]

\* FreeContactFormat without the trailing placeholder column.
FreeContactFormat_NoPlaceholder(contact) ==
    IntStr(contact.res1_seq) \o <<" ">> \o contact.res1 \o <<" ">>
        \o IntStr(contact.res2_seq) \o <<" ">> \o contact.res2 \o <<" ">>
        \o FloatStr(contact.raw_score) \o os_linesep

\* The line FreeContactParser.write formats for one contact, with os.linesep.
FreeContactFormat(contact) ==
    IntStr(contact.res1_seq) \o <<" ">> \o contact.res1 \o <<" ">>
        \o IntStr(contact.res2_seq) \o <<" ">> \o contact.res2 \o <<" ">>
        \o FloatStr(contact.raw_score) \o <<" ", "0">> \o os_linesep

\* The f_handle.write calls of the two nested loops, one per contact.
RECURSIVE FreeContactWriteMaps(_, _)
FreeContactWriteMaps(maps, m) ==
    IF m > Len(maps) THEN <<>>
    ELSE [i \in 1..Len(maps[m].contacts) |-> FreeContactFormat(maps[m].contacts[i])]
            \o FreeContactWriteMaps(maps, m + 1)

\* FreeContactParser.write without the check of the number of maps.
FreeContactParser_write_Unchecked(f_handle, h) ==
    [err |-> NoError, out |-> f_handle \o FreeContactWriteMaps(Reconstruct(h).maps, 1)]

FreeContactParser_write(f_handle, h) ==
    LET contact_file == Reconstruct(h) IN
    IF Len(contact_file.maps) > 1
    THEN [err |-> Raise("RuntimeError", "More than one contact map provided", <<>>),
          out |-> f_handle]
    ELSE [err |-> NoError, out |-> f_handle \o FreeContactWriteMaps(contact_file.maps, 1)]

\* ------------------------------------------------------- BCLContactIO.py

\* BCLContactLine with the score taken from the ninth field instead of the
\* tenth.
BCLContactLine_ScoreFromNinth(line, contacts) ==
    LET f == RE_SPLIT_split(line) IN
    IF Len(f) < 10
    THEN [err |-> Raise("ValueError", "not enough values to unpack", <<>>), contacts |-> contacts]
    ELSE IF Len(f) > 10
    THEN [err |-> Raise("ValueError", "too many values to unpack", <<>>), contacts |-> contacts]
    ELSE IF ~IntOk(f[1])
    THEN [err |-> Raise("ValueError", "invalid literal for int()", f[1]), contacts |-> contacts]
    ELSE IF ~IntOk(f[3])
    THEN [err |-> Raise("ValueError", "invalid literal for int()", f[3]), contacts |-> contacts]
    ELSE IF ~FloatOk(f[9])
    THEN [err |-> Raise("ValueError", "could not convert string to float", f[9]), contacts |-> contacts]
    ELSE ContactMap_add(contacts, Contact(IntVal(f[1]), IntVal(f[3]), FloatVal(f[9]), f[2], f[4]))

\* One pass of the loop body of BCLContactParser.read on a non-blank,
\* rstripped line: the 10-way unpacking, the conversions, ContactMap.add.
BCLContactLine(line, contacts) ==
    LET f == RE_SPLIT_split(line) IN
    IF Len(f) < 10
    THEN [err |-> Raise("ValueError", "not enough values to unpack", <<>>), contacts |-> contacts]
    ELSE IF Len(f) > 10
    THEN [err |-> Raise("ValueError", "too many values to unpack", <<>>), contacts |-> contacts]
    ELSE IF ~IntOk(f[1])
    THEN [err |-> Raise("ValueError", "invalid literal for int()", f[1]), contacts |-> contacts]
    ELSE IF ~IntOk(f[3])
    THEN [err |-> Raise("ValueError", "invalid literal for int()", f[3]), contacts |-> contacts]
    ELSE IF ~FloatOk(f[10])
    THEN [err |-> Raise("ValueError", "could not convert string to float", f[10]), contacts |-> contacts]
    ELSE ContactMap_add(contacts, Contact(IntVal(f[1]), IntVal(f[3]), FloatVal(f[10]), f[2], f[4]))

\* The loop of BCLContactParser.read from line i on.
RECURSIVE BCLContactLoop(_, _, _)
BCLContactLoop(f_handle, i, contacts) ==
    IF i > Len(f_handle) THEN [err |-> NoError, contacts |-> contacts, lines_read |-> i - 1]
    ELSE LET line == rstrip(f_handle[i]) IN
         IF line = <<>> THEN BCLContactLoop(f_handle, i + 1, contacts)
         ELSE LET r == BCLContactLine(line, contacts) IN
              IF r.err # NoError THEN [err |-> r.err, contacts |-> r.contacts, lines_read |-> i]
              ELSE BCLContactLoop(f_handle, i + 1, r.contacts)

BCLContactParser_read(f_handle, f_id) ==
    LET r == BCLContactLoop(f_handle, 1, <<>>) IN
    IF r.err # NoError
    THEN [err |-> r.err, hierarchy |-> NoHierarchy, lines_read |-> r.lines_read]
    ELSE [err |-> NoError,
          hierarchy |-> ContactFile(f_id, "Contact map predicted using BCL::Contact",
                                    <<ContactMap("map_1", r.contacts)>>),
          lines_read |-> r.lines_read]

\* BCLContactParser.write writing the way FreeContactParser.write does.
BCLContactParser_write_Writes(f_handle, h) == FreeContactParser_write(f_handle, h)

BCLContactParser_write(f_handle, h) ==
    [err |-> Raise("RuntimeError", "Not available", <<>>), out |-> f_handle]

\* --------------------------------------------------- plot/contactmap.py

\* _Gap.IDENTIFIER, the residue number of a gapped position.
GapIdentifier == -999999

\* A Contact as the figure reads it.
PlotContact(res1_seq, res2_seq, raw_score, is_match, is_mismatch) ==
    [res1_seq |-> res1_seq, res2_seq |-> res2_seq, raw_score |-> raw_score,
     res1_altseq |-> res1_seq, res2_altseq |-> res2_seq,
     is_match |-> is_match, is_mismatch |-> is_mismatch]

NoFigure == [kind |-> "None"]

SeqMin(x) == CHOOSE v \in {x[i] : i \in 1..Len(x)} : \A j \in 1..Len(x) : v <= x[j]

SeqMax(x) == CHOOSE v \in {x[i] : i \in 1..Len(x)} : \A j \in 1..Len(x) : v >= x[j]

\* data[:, k] of a two-dimensional array.
Column(data, k) == [i \in 1..Len(data) |-> data[i][k]]

\* ContactMapFigure._determine_color(h): one colour per contact of h.
DetermineColor(h) ==
    [i \in 1..Len(h) |->
        IF h[i].is_match THEN "MATCH" ELSE IF h[i].is_mismatch THEN "MISMATCH" ELSE "GENERAL"]

\* The (res1_seq, res2_seq, raw_score) rows of the contacts without a gap.
GapFreeData(h) ==
    LET kept == SelectSeq(h, LAMBDA c : ~(c.res1_seq = GapIdentifier \/ c.res2_seq = GapIdentifier))
    IN [i \in 1..Len(kept) |-> <<kept[i].res1_seq, kept[i].res2_seq, kept[i].raw_score>>]

\* The rows of the reference map.
ReferenceData(reference, altloc) ==
    [i \in 1..Len(reference) |->
        IF altloc THEN <<reference[i].res1_altseq, reference[i].res2_altseq>>
        ELSE <<reference[i].res1_seq, reference[i].res2_seq>>]

\* The marker sizes, each a fraction <<numerator, denominator>>: 10, or with
\* use_conf (score - min) / ptp * 20 + 10, which is 0/0 when all scores are
\* equal.
MarkerSizes(data, use_conf) ==
    LET score == Column(data, 3) IN
    IF use_conf
    THEN LET ptp == SeqMax(score) - SeqMin(score) IN
         [i \in 1..Len(data) |->
            IF ptp = 0 THEN <<0, 0>> ELSE <<(score[i] - SeqMin(score)) * 20 + 10 * ptp, ptp>>]
    ELSE [i \in 1..Len(data) |-> <<10, 1>>]

\* One call of self.ax.scatter.
Scatter(x, y, color, sizes) == [x |-> x, y |-> y, color |-> color, s |-> sizes]

\* The two scatter calls of the reference map.
ReferenceScatters(fig) ==
    IF fig.reference = <<>> THEN <<>>
    ELSE LET reference_data == ReferenceData(fig.reference, fig.altloc)
             reference_colors == [i \in 1..Len(reference_data) |-> "STRUCTURAL"]
             sizes == [i \in 1..Len(reference_data) |-> <<10, 1>>]
         IN << Scatter(Column(reference_data, 1), Column(reference_data, 2), reference_colors, sizes),
               Scatter(Column(reference_data, 2), Column(reference_data, 1), reference_colors, sizes) >>

\* Axes.scatter called with colours that are neither one nor as many as the
\* points: a matplotlib that checks this raises ValueError, an older one
\* takes the colours in turn.
ScatterRefused(call) == scatter_checks /\ Len(call.color) \notin {0, 1, Len(call.x)}

ColorError == Raise("ValueError", "'c' argument is inconsistent with 'x' and 'y'", <<>>)

\* What draw() has done when it stops with exception e after the calls made
\* (the call that raised is the last of them).
DrawStopped(e, scatters) ==
    [err |-> e, scatters |-> scatters, min_max_data |-> <<>>, xlim |-> <<>>, gap |-> 0,
     tick_range |-> <<>>]

\* np.arange(lo, hi, step) for a positive step.
RECURSIVE Arange(_, _, _)
Arange(lo, hi, step) == IF lo >= hi THEN <<>> ELSE <<lo>> \o Arange(lo + step, hi, step)

\* The limits and the ticks of draw(), lines 244 to 263.  np.arange with a
\* step of 0 raises, ZeroDivisionError or ValueError by the numpy installed.
DrawAxes(fig, scatters, self_data, other_data) ==
    LET min_max_data ==
            IF fig.lim # <<>> THEN Arange(fig.lim[1], fig.lim[2] + 1, 1)
            ELSE Column(self_data, 1) \o Column(self_data, 2)
                    \o (IF fig.reference # <<>>
                        THEN Column(ReferenceData(fig.reference, fig.altloc), 1)
                                \o Column(ReferenceData(fig.reference, fig.altloc), 2)
                        ELSE <<>>)
                    \o (IF fig.other # <<>>
                        THEN Column(other_data, 1) \o Column(other_data, 2)
                        ELSE <<>>)
    IN
    IF min_max_data = <<>>
    THEN [DrawStopped(Raise("ValueError", "zero-size array to reduction operation", <<>>), scatters)
            EXCEPT !.min_max_data = min_max_data]
    ELSE LET lo == SeqMin(min_max_data)
             hi == SeqMax(min_max_data)
             gap == (10 * (hi - lo)) \div 100
         IN IF gap = 0
            THEN [err |-> Raise("ZeroStepError", "np.arange with a step of 0", <<>>),
                  scatters |-> scatters, min_max_data |-> min_max_data, xlim |-> <<lo, hi>>,
                  gap |-> gap, tick_range |-> <<>>]
            ELSE [err |-> NoError,
                  scatters |-> scatters, min_max_data |-> min_max_data, xlim |-> <<lo, hi>>,
                  gap |-> gap, tick_range |-> Arange(lo, hi, gap)]

\* ContactMapFigure.draw().
ContactMapFigure_draw(fig) ==
    LET ref == ReferenceScatters(fig)
        self_data == GapFreeData(fig.hierarchy)
        self_colors == DetermineColor(fig.hierarchy)
    IN
    IF self_data = <<>>
    THEN DrawStopped(Raise("IndexError", "too many indices for array", <<>>), ref)
    ELSE
    LET self_sizes == MarkerSizes(self_data, fig.use_conf)
        first == Scatter(Column(self_data, 2), Column(self_data, 1), self_colors, self_sizes)
    IN
    IF ScatterRefused(first)
    THEN DrawStopped(ColorError, ref \o <<first>>)
    ELSE
    IF fig.other # <<>>
    THEN LET other_data == GapFreeData(fig.other)
             other_colors == DetermineColor(fig.other)
         IN IF other_data = <<>>
            THEN DrawStopped(Raise("IndexError", "too many indices for array", <<>>),
                             ref \o <<first>>)
            ELSE LET second == Scatter(Column(other_data, 1), Column(other_data, 2), other_colors,
                                       MarkerSizes(other_data, fig.use_conf))
                 IN IF ScatterRefused(second)
                    THEN DrawStopped(ColorError, ref \o <<first, second>>)
                    ELSE DrawAxes(fig, ref \o <<first, second>>, self_data, other_data)
    ELSE DrawAxes(fig,
                  ref \o <<first, Scatter(Column(self_data, 1), Column(self_data, 2), self_colors, self_sizes)>>,
                  self_data, <<>>)

\* ContactMapFigure.redraw(): warnings.warn, then the call of the name draw,
\* which is neither a local nor a global nor a built-in name; the method
\* draw of the figure is not called, and what was drawn before stays.
ContactMapFigure_redraw(fig, before) ==
    [warnings |-> <<"This method has been deprecated, use draw() instead">>,
     drawn |-> before,
     err |-> Raise("NameError", "name 'draw' is not defined", <<>>)]

\* The lim setter: a list or tuple of two entries.
LimSetter(fig, lim) ==
    IF Len(lim) = 2 THEN [err |-> NoError, fig |-> [fig EXCEPT !.lim = lim]]
    ELSE [err |-> Raise("ValueError", "A list with 2 entries is required!", <<>>), fig |-> fig]

NotDrawn == DrawStopped(NoError, <<>>)

\* ContactMapFigure(hierarchy, other, reference, altloc, use_conf, lim): the
\* setters, then draw().  An empty map is false, like None and an empty lim.
ContactMapFigure_init(h, other, reference, altloc, use_conf, lim) ==
    IF h = <<>>
    THEN [err |-> Raise("TypeError", "Invalid hierarchy type", <<>>), fig |-> NoFigure,
          drawn |-> NotDrawn]
    ELSE LET f0 == [kind |-> "ContactMapFigure", hierarchy |-> h, other |-> other,
                    reference |-> reference, lim |-> <<>>, altloc |-> altloc,
                    use_conf |-> use_conf]
             f1 == IF lim # <<>> THEN LimSetter(f0, lim) ELSE [err |-> NoError, fig |-> f0]
         IN IF f1.err # NoError
            THEN [err |-> f1.err, fig |-> NoFigure, drawn |-> NotDrawn]
            ELSE LET d == ContactMapFigure_draw(f1.fig) IN
                 [err |-> d.err, fig |-> IF d.err = NoError THEN f1.fig ELSE NoFigure, drawn |-> d]

\* ------------------------------------------------- the figure's inputs

PlainP == PlotContact(1, 4, 2, FALSE, FALSE)
MatchP == PlotContact(3, 15, 1, TRUE, FALSE)
GapP == PlotContact(GapIdentifier, 7, 3, FALSE, TRUE)
FarP == PlotContact(2, 30, 2, FALSE, TRUE)

PlotContacts == {PlainP, MatchP, GapP, FarP}

\* The maps given as the hierarchy: up to MaxPlotted distinct contacts.
PlotMaps ==
    {h \in UNION {[1..n -> PlotContacts] : n \in 0..MaxPlotted} :
        \A i, j \in 1..Len(h) : i < j => h[i] # h[j]}

\* The maps given as other and as reference; <<>> stands for None.
SideMaps == { <<>>, <<MatchP>>, <<GapP>>, <<FarP, GapP>> }

LimArgs == { <<>>, <<1, 30>>, <<5, 5>>, <<9, 2>>, <<1>> }

\* ------------------------------------------------ the figure's actions

FigureInit ==
    /\ fig_op = "none"
    /\ figure = NoFigure
    /\ drawn = NotDrawn
    /\ warned = <<>>
    /\ fig_err = NoError
    /\ scatter_checks \in BOOLEAN

FigureNew ==
    /\ fig_op = "none"
    /\ \E h \in PlotMaps, other \in SideMaps, reference \in SideMaps,
          altloc \in BOOLEAN, use_conf \in BOOLEAN, lim \in LimArgs :
          LET r == ContactMapFigure_init(h, other, reference, altloc, use_conf, lim) IN
          /\ fig_op' = "ContactMapFigure"
          /\ figure' = r.fig
          /\ drawn' = r.drawn
          /\ fig_err' = r.err
          /\ UNCHANGED <<warned, scatter_checks>>

\* figure.lim = lim
FigureSetLim ==
    /\ figure # NoFigure
    /\ fig_op = "ContactMapFigure"
    /\ \E lim \in LimArgs \ {<<>>} :
          LET r == LimSetter(figure, lim) IN
          /\ fig_op' = "lim"
          /\ figure' = r.fig
          /\ fig_err' = r.err
          /\ UNCHANGED <<drawn, warned, scatter_checks>>

\* figure.draw()
FigureDraw ==
    /\ figure # NoFigure
    /\ fig_op \in {"ContactMapFigure", "lim"}
    /\ LET d == ContactMapFigure_draw(figure) IN
       /\ fig_op' = "draw"
       /\ drawn' = d
       /\ fig_err' = d.err
       /\ UNCHANGED <<figure, warned, scatter_checks>>

\* figure.redraw()
FigureRedraw ==
    /\ figure # NoFigure
    /\ fig_op \in {"ContactMapFigure", "lim"}
    /\ LET r == ContactMapFigure_redraw(figure, drawn) IN
       /\ fig_op' = "redraw"
       /\ warned' = warned \o r.warnings
       /\ drawn' = r.drawn
       /\ fig_err' = r.err
       /\ UNCHANGED <<figure, scatter_checks>>

\* ------------------------------------------ command_line/conkit_predict.py

UpperCase == <<"A", "B", "C", "D", "E", "F", "G", "H", "I", "J", "K", "L", "M",
               "N", "O", "P", "Q", "R", "S", "T", "U", "V", "W", "X", "Y", "Z">>

LowerCase == <<"a", "b", "c", "d", "e", "f", "g", "h", "i", "j", "k", "l", "m",
               "n", "o", "p", "q", "r", "s", "t", "u", "v", "w", "x", "y", "z">>

\* str.lower()
lower(name) ==
    [i \in 1..Len(name) |->
        IF \E k \in 1..26 : UpperCase[k] = name[i]
        THEN LowerCase[CHOOSE k \in 1..26 : UpperCase[k] = name[i]]
        ELSE name[i]]

Fasta == <<"f", "a", "s", "t", "a">>
Jones == <<"j", "o", "n", "e", "s">>
A3m == <<"a", "3", "m">>
Stockholm == <<"s", "t", "o", "c", "k", "h", "o", "l", "m">>

\* conkit.io.SEQUENCE_FILE_PARSERS: the names of the registered sequence
\* and alignment formats.
SEQUENCE_FILE_PARSERS == {A3m, Fasta, Jones, Stockholm}

\* The look-up without str.lower().
FormatAccepted_CaseSensitive(name) == name \in SEQUENCE_FILE_PARSERS

\* lines 83 and 89, 105 and 114: the format name is lower-cased and looked
\* up in the registry.
FormatAccepted(name) == lower(name) \in SEQUENCE_FILE_PARSERS

\* The minimal sequence separation of line 173.
dtn == 5

Abs(n) == IF n < 0 THEN 0 - n ELSE n

\* ContactMap.remove_neighbors(min_distance, inplace=True)
remove_neighbors(contacts, min_distance) ==
    SelectSeq(contacts, LAMBDA c : Abs(c.res1_seq - c.res2_seq) >= min_distance)

\* One contact put into a list sorted by falling raw_score: behind every
\* contact whose score is not smaller.
RECURSIVE InsertByScore(_, _)
InsertByScore(sorted, c) ==
    IF sorted = <<>> THEN <<c>>
    ELSE IF sorted[1].raw_score >= c.raw_score THEN <<sorted[1]>> \o InsertByScore(Tail(sorted), c)
    ELSE <<c>> \o sorted

\* ContactMap.sort('raw_score', reverse=True, inplace=True): a stable sort.
RECURSIVE sort_raw_score_reverse(_)
sort_raw_score_reverse(contacts) ==
    IF contacts = <<>> THEN <<>>
    ELSE InsertByScore(sort_raw_score_reverse(SubSeq(contacts, 1, Len(contacts) - 1)),
                       contacts[Len(contacts)])

\* contact_map[:n]
slice_to(contacts, n) == SubSeq(contacts, 1, IF n < Len(contacts) THEN n ELSE Len(contacts))

\* The selection with the slice taken before the sort.
TopContacts_SliceFirst(contacts, L) ==
    sort_raw_score_reverse(slice_to(remove_neighbors(contacts, dtn), L))

\* lines 177 to 179: remove_neighbors, sort, slice to seq_len.
TopContacts(contacts, L) ==
    slice_to(sort_raw_score_reverse(remove_neighbors(contacts, dtn)), L)

\* What main was given on the command line.
FormatNames ==
    { Fasta, <<"F", "A", "S", "T", "A">>, Jones, <<"J", "o", "n", "e", "s">>, A3m,
      <<"x", "y", "z">>, <<"F", "A", "S", "T">> }

ArgLists ==
    { [which |-> w, format |-> f, demo |-> d, nodca |-> n] :
        w \in {"alignment", "sequence"}, f \in FormatNames, d \in BOOLEAN, n \in BOOLEAN }

\* args as argparse returns them: --nodca exists for the seq subcommand only.
Arguments == {a \in ArgLists : a.which = "alignment" => ~a.nodca}

NoArguments == [which |-> "none", format |-> <<>>, demo |-> FALSE, nodca |-> FALSE]

\* The working directory before main starts: with or without the input
\* file, with or without the a3m and matrix files of an earlier run.
Directories == SUBSET {"input", "a3m", "mat"}

\* The contacts of a matrix file.
NearTop == PlotContact(1, 2, 9, FALSE, FALSE)
NearLow == PlotContact(4, 8, 2, FALSE, FALSE)
MidA == PlotContact(1, 6, 5, FALSE, FALSE)
MidB == PlotContact(2, 19, 5, FALSE, FALSE)
FarHigh == PlotContact(20, 3, 7, FALSE, FALSE)

MatrixContacts == {NearTop, NearLow, MidA, MidB, FarHigh}

MatrixMaps ==
    {h \in UNION {[1..n -> MatrixContacts] : n \in 0..MaxContacts} :
        \A i, j \in 1..Len(h) : i < j => h[i] # h[j]}

MainInit ==
    /\ pc = "start"
    /\ args = NoArguments
    /\ files = {}
    /\ jon_fname = ""
    /\ trace = <<>>
    /\ cmap_in = <<>>
    /\ seq_len = 0
    /\ cmap = <<>>
    /\ main_err = NoError

\* main raises e.
Raised(e) ==
    /\ pc' = "raised"
    /\ main_err' = e

\* lines 70 to 79: the arguments are parsed.
MainArgs ==
    /\ pc = "start"
    /\ \E a \in Arguments, dir \in Directories :
          /\ args' = a
          /\ files' = dir
    /\ pc' = "check"
    /\ UNCHANGED <<jon_fname, trace, cmap_in, seq_len, cmap, main_err>>

\* lines 81 to 92 and 101 to 117: the format is checked.
MainCheckFormat ==
    /\ pc = "check"
    /\ IF FormatAccepted(args.format)
       THEN pc' = "convert" /\ UNCHANGED main_err
       ELSE Raised(Raise("ValueError", "Sequence format not yet implemented", <<>>))
    /\ UNCHANGED <<args, files, jon_fname, trace, cmap_in, seq_len, cmap>>

\* conkit.io.convert(src, ..., dst, ...) called by main: it fails when src
\* is missing or cannot be parsed, else dst exists afterwards.
Converted(src, dst, parses, next) ==
    /\ trace' = Append(trace, "convert:" \o src \o "->" \o dst)
    /\ IF src \notin files
       THEN Raised(Raise("IOError", "No such file", <<>>)) /\ UNCHANGED files
       ELSE IF ~parses
       THEN Raised(Raise("ValueError", "cannot parse", <<>>)) /\ UNCHANGED files
       ELSE /\ files' = files \cup {dst}
            /\ pc' = next
            /\ UNCHANGED main_err

\* lines 94 to 99: the alignment is converted to the Jones format.
MainConvertAlignment ==
    /\ pc = "convert"
    /\ args.which = "alignment"
    /\ IF lower(args.format) # Jones
       THEN /\ \E parses \in BOOLEAN : Converted("input", "jones", parses, "read_jones")
            /\ jon_fname' = "jones"
       ELSE /\ jon_fname' = "input"
            /\ pc' = "read_jones"
            /\ UNCHANGED <<files, trace, main_err>>
    /\ UNCHANGED <<args, cmap_in, seq_len, cmap>>

\* lines 119 to 123: the sequence is converted to FASTA.
MainConvertSequence ==
    /\ pc = "convert"
    /\ args.which = "sequence"
    /\ IF lower(args.format) # Fasta
       THEN \E parses \in BOOLEAN : Converted("input", "fasta", parses, "hhblits")
       ELSE /\ pc' = "hhblits"
            /\ UNCHANGED <<files, trace, main_err>>
    /\ UNCHANGED <<args, jon_fname, cmap_in, seq_len, cmap>>

\* lines 125 to 136: HHblits is run, or with --demo its output asserted.
\* The executable leaves its output files or does not.
MainHHblits ==
    /\ pc = "hhblits"
    /\ IF args.demo
       THEN /\ trace' = Append(trace, "assert:a3m")
            /\ IF "a3m" \in files
               THEN pc' = "convert_a3m" /\ UNCHANGED main_err
               ELSE Raised(Raise("AssertionError", "", <<>>))
            /\ UNCHANGED files
       ELSE /\ trace' = Append(trace, "exec:hhblits")
            /\ \E produced \in BOOLEAN :
                  files' = IF produced THEN files \cup {"a3m", "hhr"} ELSE files
            /\ pc' = "convert_a3m"
            /\ UNCHANGED main_err
    /\ UNCHANGED <<args, jon_fname, cmap_in, seq_len, cmap>>

\* lines 138 and 139: the a3m alignment is converted to the Jones format.
MainConvertA3m ==
    /\ pc = "convert_a3m"
    /\ \E parses \in BOOLEAN : Converted("a3m", "jones", parses, "read_jones")
    /\ jon_fname' = "jones"
    /\ UNCHANGED <<args, cmap_in, seq_len, cmap>>

\* lines 146 to 153: the alignment is read, its statistics are logged and
\* its coverage plotted.
MainReadAlignment ==
    /\ pc = "read_jones"
    /\ IF jon_fname \notin files
       THEN Raised(Raise("IOError", "No such file", <<>>)) /\ UNCHANGED <<trace, files>>
       ELSE \E parses \in BOOLEAN :
               IF ~parses
               THEN Raised(Raise("ValueError", "cannot parse", <<>>)) /\ UNCHANGED <<trace, files>>
               ELSE /\ trace' = trace \o <<"read:jones", "nseqs", "meff", "plot:coverage">>
                    /\ files' = files \cup {"freq.pdf"}
                    /\ pc' = "kill_switch"
                    /\ UNCHANGED main_err
    /\ UNCHANGED <<args, jon_fname, cmap_in, seq_len, cmap>>

\* The kill switch that never returns.
MainKillSwitch_Ignored ==
    /\ pc = "kill_switch"
    /\ pc' = "ccmpred"
    /\ UNCHANGED <<args, files, jon_fname, trace, cmap_in, seq_len, cmap, main_err>>

\* lines 155 to 157: with --nodca main returns here.
MainKillSwitch ==
    /\ pc = "kill_switch"
    /\ pc' = IF args.which = "sequence" /\ args.nodca THEN "done" ELSE "ccmpred"
    /\ UNCHANGED <<args, files, jon_fname, trace, cmap_in, seq_len, cmap, main_err>>

\* lines 159 to 170: CCMpred is run, or with --demo its output asserted.
MainCCMpred ==
    /\ pc = "ccmpred"
    /\ IF args.demo
       THEN /\ trace' = Append(trace, "assert:mat")
            /\ IF "mat" \in files
               THEN pc' = "read_matrix" /\ UNCHANGED main_err
               ELSE Raised(Raise("AssertionError", "", <<>>))
            /\ UNCHANGED files
       ELSE /\ trace' = Append(trace, "exec:ccmpred")
            /\ \E produced \in BOOLEAN :
                  files' = IF produced THEN files \cup {"mat"} ELSE files
            /\ pc' = "read_matrix"
            /\ UNCHANGED main_err
    /\ UNCHANGED <<args, jon_fname, cmap_in, seq_len, cmap>>

\* lines 172 to 179: the matrix is read, the sequence attached, the top
\* contacts selected.
MainSelect ==
    /\ pc = "read_matrix"
    /\ IF "mat" \notin files
       THEN /\ Raised(Raise("IOError", "No such file", <<>>))
            /\ UNCHANGED <<trace, cmap_in, seq_len, cmap>>
       ELSE \/ /\ Raised(Raise("ValueError", "cannot parse", <<>>))
               /\ UNCHANGED <<trace, cmap_in, seq_len, cmap>>
            \/ \E m \in MatrixMaps, L \in 1..MaxSeqLen :
                  /\ trace' = trace \o <<"read:mat", "read:jones", "select">>
                  /\ cmap_in' = m
                  /\ seq_len' = L
                  /\ cmap' = TopContacts(m, L)
                  /\ pc' = "plot_cmap"
                  /\ UNCHANGED main_err
    /\ UNCHANGED <<args, files, jon_fname>>

\* lines 180 to 184: the contact map is plotted.
MainPlotContactMap ==
    /\ pc = "plot_cmap"
    /\ LET r == ContactMapFigure_init(cmap, <<>>, <<>>, FALSE, FALSE, <<>>) IN
       IF r.err # NoError
       THEN Raised(r.err) /\ UNCHANGED <<trace, files>>
       ELSE /\ trace' = Append(trace, "plot:cmap")
            /\ files' = files \cup {"cmap.pdf"}
            /\ pc' = "write_rr"
            /\ UNCHANGED main_err
    /\ UNCHANGED <<args, jon_fname, cmap_in, seq_len, cmap>>

\* lines 186 to 191: the matrix is converted to a CASP RR file.
MainWriteRR ==
    /\ pc = "write_rr"
    /\ Converted("mat", "rr", TRUE, "done")
    /\ UNCHANGED <<args, jon_fname, cmap_in, seq_len, cmap>>

\* --------------------------------------------------- the codecs' inputs

RECURSIVE Join(_, _)
Join(fields, sep) ==
    IF fields = <<>> THEN <<>>
    ELSE IF Len(fields) = 1 THEN fields[1]
    ELSE fields[1] \o sep \o Join(Tail(fields), sep)

SP == <<" ">>

NL == <<"\n">>

\* The fields of three FreeContact records and of one that repeats the
\* residue pair of the first in the other order.
RecA == << <<"1">>, <<"A">>, <<"5">>, <<"K">>, <<"2", ".", "3">>, <<"0">> >>
RecB == << <<"2">>, <<"C">>, <<"9">>, <<"L">>, <<"1", ".", "1">>, <<"0">> >>
RecC == << <<"1", "2">>, <<"G">>, <<"3">>, <<"A">>, <<"2", ".", "3">>, <<"0">> >>
RecArev == << <<"5">>, <<"K">>, <<"1">>, <<"A">>, <<"0", ".", "5">>, <<"0">> >>

\* Lines in the layout FreeContactParser.write produces.
PlainLines == {Join(r, SP) \o NL : r \in {RecA, RecB, RecC, RecArev}}

\* Lines with six fields that read well and are laid out or spelt otherwise.
VariantLines ==
    { Join([RecB EXCEPT ![5] = <<"1", ".", "1", "0">>], SP) \o NL,   \* 1.10
      Join([RecB EXCEPT ![5] = <<"1">>], SP) \o NL,                  \* 1
      Join([RecB EXCEPT ![5] = <<"-", ".", "5">>], SP) \o NL,        \* -.5
      Join([RecB EXCEPT ![1] = <<"0", "2">>], SP) \o NL,             \* 02
      Join([RecB EXCEPT ![6] = <<"1">>], SP) \o NL,                  \* last column 1
      Join(RecB, <<" ", " ">>) \o NL,
      Join(RecB, <<"\t">>) \o NL,
      Join(RecB, SP) \o <<" ", "\n">>,
      Join(RecB, SP) \o <<"\r", "\n">>,
      Join(RecB, SP) }                                               \* no line end

BlankLines == { NL, <<" ", "\n">> }

\* Lines FreeContactParser.read takes for malformed.
BadLines ==
    { Join(SubSeq(RecB, 1, 5), SP) \o NL,
      Join(RecB \o << <<"0">> >>, SP) \o NL,
      SP \o Join(RecB, SP) \o NL,
      SP \o Join(SubSeq(RecB, 1, 5), SP) \o NL,
      Join([RecB EXCEPT ![3] = <<"x">>], SP) \o NL,
      Join([RecB EXCEPT ![5] = <<"y">>], SP) \o NL }

\* The fields of BCL::Contact records: ten columns.
BclA == << <<"1">>, <<"A">>, <<"5">>, <<"K">>, <<"0">>, <<"0">>, <<"0">>, <<"0">>,
           <<"0", ".", "4">>, <<"0", ".", "9">> >>
BclB == << <<"2">>, <<"C">>, <<"9">>, <<"L">>, <<"0">>, <<"0">>, <<"0">>, <<"0">>,
           <<"x">>, <<"0", ".", "7">> >>

BclLines ==
    { Join(BclA, SP) \o NL,
      Join(BclB, SP) \o NL,
      Join(SubSeq(BclA, 1, 9), SP) \o NL,
      SP \o Join(SubSeq(BclA, 1, 9), SP) \o NL }

Lines == PlainLines \cup VariantLines \cup BlankLines \cup BadLines \cup BclLines

\* What iterating a file handle can yield: only the last line may lack its
\* line end.
IsFile(x) == \A i \in 1..(Len(x) - 1) : x[i][Len(x[i])] = "\n"

Files == {x \in UNION {[1..n -> Lines] : n \in 0..MaxLines} : IsFile(x)}

\* Contacts and maps a caller builds directly.
ContactP == Contact(1, 5, [neg |-> FALSE, int |-> 2, frac |-> <<"3">>], <<"A">>, <<"K">>)
ContactQ == Contact(9, 2, [neg |-> FALSE, int |-> 0, frac |-> <<>>], <<"L">>, <<"C">>)

ContactLists == { <<>>, <<ContactP>>, <<ContactQ, ContactP>> }

MapIds == <<"map_1", "map_2", "map_3", "map_4">>

BuiltFiles ==
    { ContactFile("built", "", [m \in 1..Len(cs) |-> ContactMap(MapIds[m], cs[m])]) :
        cs \in UNION {[1..k -> ContactLists] : k \in 0..MaxMaps} }

BuiltHierarchies ==
    BuiltFiles
        \cup {ContactMap("map_1", cs) : cs \in ContactLists}
        \cup {[kind |-> "Contact", contact |-> ContactP]}

\* Output handles as the caller opens them: empty, or positioned after
\* something written earlier.
Handles == { <<>>, << <<"#", "\n">> >> }

\* --------------------------------------------------- the codecs' actions
\* One run of a caller: it reads a file or builds a hierarchy, then hands the
\* hierarchy to one of the two writers.

CodecInit ==
    /\ op = "none"
    /\ f_in = <<>>
    /\ lines_read = 0
    /\ hierarchy = NoHierarchy
    /\ h_from = "none"
    /\ f_pre = <<>>
    /\ f_out = <<>>
    /\ err = NoError

FreeContactRead ==
    /\ op = "none"
    /\ \E x \in Files :
        LET r == FreeContactParser_read(x, "freecontact") IN
        /\ op' = "FreeContactParser.read"
        /\ f_in' = x
        /\ lines_read' = r.lines_read
        /\ hierarchy' = r.hierarchy
        /\ h_from' = IF r.err = NoError THEN "FreeContactParser.read" ELSE "none"
        /\ err' = r.err
        /\ UNCHANGED <<f_pre, f_out>>

BCLContactRead ==
    /\ op = "none"
    /\ \E x \in Files :
        LET r == BCLContactParser_read(x, "bclcontact") IN
        /\ op' = "BCLContactParser.read"
        /\ f_in' = x
        /\ lines_read' = r.lines_read
        /\ hierarchy' = r.hierarchy
        /\ h_from' = IF r.err = NoError THEN "BCLContactParser.read" ELSE "none"
        /\ err' = r.err
        /\ UNCHANGED <<f_pre, f_out>>

\* A caller builds a hierarchy of its own.
Build ==
    /\ op = "none"
    /\ \E h \in BuiltHierarchies :
        /\ op' = "build"
        /\ hierarchy' = h
        /\ h_from' = "caller"
        /\ f_in' = <<>>
        /\ lines_read' = 0
        /\ err' = NoError
        /\ UNCHANGED <<f_pre, f_out>>

FreeContactWrite ==
    /\ op \in {"FreeContactParser.read", "BCLContactParser.read", "build"}
    /\ hierarchy # NoHierarchy
    /\ \E pre \in Handles :
          LET r == FreeContactParser_write(pre, hierarchy) IN
          /\ op' = "FreeContactParser.write"
          /\ f_pre' = pre
          /\ f_out' = r.out
          /\ err' = r.err
          /\ UNCHANGED <<f_in, lines_read, hierarchy, h_from>>

BCLContactWrite ==
    /\ op \in {"FreeContactParser.read", "BCLContactParser.read", "build"}
    /\ hierarchy # NoHierarchy
    /\ \E pre \in Handles :
          LET r == BCLContactParser_write(pre, hierarchy) IN
          /\ op' = "BCLContactParser.write"
          /\ f_pre' = pre
          /\ f_out' = r.out
          /\ err' = r.err
          /\ UNCHANGED <<f_in, lines_read, hierarchy, h_from>>

\* ------------------------------------------------------ specifications

\* The codecs alone.
Init == CodecInit /\ FigureInit /\ MainInit

Next ==
    \/ FreeContactRead /\ UNCHANGED <<fig_vars, main_vars>>
    \/ BCLContactRead /\ UNCHANGED <<fig_vars, main_vars>>
    \/ Build /\ UNCHANGED <<fig_vars, main_vars>>
    \/ FreeContactWrite /\ UNCHANGED <<fig_vars, main_vars>>
    \/ BCLContactWrite /\ UNCHANGED <<fig_vars, main_vars>>

Spec == Init /\ [][Next]_vars

\* The figure alone.
DrawInitial == CodecInit /\ FigureInit /\ MainInit

DrawNext ==
    \/ FigureNew /\ UNCHANGED <<codec_vars, main_vars>>
    \/ FigureSetLim /\ UNCHANGED <<codec_vars, main_vars>>
    \/ FigureDraw /\ UNCHANGED <<codec_vars, main_vars>>
    \/ FigureRedraw /\ UNCHANGED <<codec_vars, main_vars>>

SpecDraw == DrawInitial /\ [][DrawNext]_vars

\* conkit-predict alone.
MainInitial == CodecInit /\ FigureInit /\ MainInit

MainNext ==
    \/ MainArgs /\ UNCHANGED <<codec_vars, fig_vars>>
    \/ MainCheckFormat /\ UNCHANGED <<codec_vars, fig_vars>>
    \/ MainConvertAlignment /\ UNCHANGED <<codec_vars, fig_vars>>
    \/ MainConvertSequence /\ UNCHANGED <<codec_vars, fig_vars>>
    \/ MainHHblits /\ UNCHANGED <<codec_vars, fig_vars>>
    \/ MainConvertA3m /\ UNCHANGED <<codec_vars, fig_vars>>
    \/ MainReadAlignment /\ UNCHANGED <<codec_vars, fig_vars>>
    \/ MainKillSwitch /\ UNCHANGED <<codec_vars, fig_vars>>
    \/ MainCCMpred /\ UNCHANGED <<codec_vars, fig_vars>>
    \/ MainSelect /\ UNCHANGED <<codec_vars, fig_vars>>
    \/ MainPlotContactMap /\ UNCHANGED <<codec_vars, fig_vars>>
    \/ MainWriteRR /\ UNCHANGED <<codec_vars, fig_vars>>

SpecMain == MainInitial /\ [][MainNext]_vars

\* ------------------------------------------------- the codecs' properties

\* All the bytes of a file, in order.
RECURSIVE Bytes(_)
Bytes(x) == IF x = <<>> THEN <<>> ELSE x[1] \o Bytes(Tail(x))

Fields(line) == RE_SPLIT_split(rstrip(line))

IsBlank(line) == rstrip(line) = <<>>

NonBlank(x) == SelectSeq(x, LAMBDA l : ~IsBlank(l))

\* The whitespace-delimited fields of a line: the non-empty pieces.
FieldCount(line) == Len(SelectSeq(RE_SPLIT_split(line), LAMBDA f : f # <<>>))

\* The residue pairs of the lines of x are pairwise distinct.
DistinctPairs(x) ==
    \A i, j \in 1..Len(x) :
        i < j => LET f == Fields(x[i])
                     g == Fields(x[j])
                 IN ~(\/ IntVal(f[1]) = IntVal(g[1]) /\ IntVal(f[3]) = IntVal(g[3])
                      \/ IntVal(f[1]) = IntVal(g[3]) /\ IntVal(f[3]) = IntVal(g[1]))

\* A well-formed 6-column line.
WellFormed6(line) ==
    LET f == Fields(line) IN
    Len(f) = 6 /\ IntOk(f[1]) /\ IntOk(f[3]) /\ FloatOk(f[5])

\* An integer as Python prints it: no plus sign, no leading zero, no -0.
PlainInt(s) ==
    LET u == IF s # <<>> /\ s[1] = "-" THEN Tail(s) ELSE s IN
    /\ u # <<>>
    /\ AllDigits(u)
    /\ Len(u) = 1 \/ u[1] # "0"
    /\ ~(s[1] = "-" /\ u = <<"0">>)

\* A float as Python prints it (within the plain decimal notation): digits,
\* a point, digits, no leading and no trailing zero that can be left out.
PlainFloat(s) ==
    LET u == IF s # <<>> /\ s[1] = "-" THEN Tail(s) ELSE s IN
    /\ PointAt(u) > 0
    /\ IntPart(u) # <<>> /\ AllDigits(IntPart(u))
    /\ Len(IntPart(u)) = 1 \/ IntPart(u)[1] # "0"
    /\ FracPart(u) # <<>> /\ AllDigits(FracPart(u))
    /\ Len(FracPart(u)) = 1 \/ FracPart(u)[Len(FracPart(u))] # "0"

\* A 6-column line in the writer's own layout: fields separated by one space,
\* numbers as Python prints them, the last column 0, the line ended by
\* os.linesep.
WriterLayout(line) ==
    LET f == Fields(line) IN
    /\ Len(f) = 6
    /\ PlainInt(f[1]) /\ PlainInt(f[3]) /\ PlainFloat(f[5])
    /\ f[6] = <<"0">>
    /\ line = Join(f, SP) \o os_linesep

RoundTripDone ==
    /\ op = "FreeContactParser.write"
    /\ h_from = "FreeContactParser.read"
    /\ f_pre = <<>>

\* C1 as claimed: for every input of well-formed 6-column lines with pairwise
\* distinct residue pairs, write(read(x)) equals x byte for byte.
C1_RoundTripAnyWellFormed ==
    ( /\ RoundTripDone
      /\ \A i \in 1..Len(f_in) : WellFormed6(f_in[i])
      /\ DistinctPairs(f_in) )
    => (err = NoError /\ Bytes(f_out) = Bytes(f_in))

\* C1 as amended: for every input of 6-column lines with pairwise distinct
\* residue pairs that are in the writer's own layout, write(read(x)) equals x
\* byte for byte.
C1_RoundTripWriterLayout ==
    ( /\ RoundTripDone
      /\ \A i \in 1..Len(f_in) : WriterLayout(f_in[i])
      /\ DistinctPairs(f_in) )
    => (err = NoError /\ Bytes(f_out) = Bytes(f_in))

\* C1's case: a file of two lines in the writer's layout was read and written.
C1_Witness ==
    /\ RoundTripDone
    /\ Len(f_in) >= 2
    /\ \A i \in 1..Len(f_in) : WriterLayout(f_in[i])
    /\ DistinctPairs(f_in)
    /\ Len(f_out) = Len(f_in)

\* The error FreeContactParser.write raises for a hierarchy of several maps.
TwoMaps == ContactFile("two", "", <<ContactMap("map_1", <<>>), ContactMap("map_2", <<>>)>>)

SeveralMapsError == FreeContactParser_write(<<>>, TwoMaps).err

\* C2 as claimed: BCLContactParser.write fails for every hierarchy, writes
\* nothing, and its error is of a kind (an exception class) other than the
\* one FreeContactParser.write raises for several maps.
C2_BclWriteOwnErrorKind ==
    op = "BCLContactParser.write" =>
        /\ err # NoError
        /\ f_out = f_pre
        /\ err.type # SeveralMapsError.type

\* C2 as amended: BCLContactParser.write fails for every hierarchy with a
\* RuntimeError whose message is "Not available" and writes nothing; the
\* error has the class of the one FreeContactParser.write raises for several
\* maps and differs from it in the message alone.
C2_BclWriteNotAvailable ==
    op = "BCLContactParser.write" =>
        /\ err = Raise("RuntimeError", "Not available", <<>>)
        /\ f_out = f_pre
        /\ err.type = SeveralMapsError.type
        /\ err.msg # SeveralMapsError.msg

\* C2's case: BCLContactParser.write was given a file of several maps with
\* contacts and a handle that already holds a line.
C2_Witness ==
    /\ op = "BCLContactParser.write"
    /\ hierarchy.kind = "ContactFile"
    /\ Len(hierarchy.maps) >= 2
    /\ \E m \in 1..Len(hierarchy.maps) : hierarchy.maps[m].contacts # <<>>
    /\ f_pre # <<>>

\* C3: FreeContactParser.write given a ContactFile of more than one map fails
\* with the error for several maps and has written nothing; given exactly one
\* map it does not raise.
C3_SeveralMapsRejected ==
    (op = "FreeContactParser.write" /\ hierarchy.kind = "ContactFile") =>
        /\ Len(hierarchy.maps) > 1 =>
              /\ err = Raise("RuntimeError", "More than one contact map provided", <<>>)
              /\ f_out = f_pre
        /\ Len(hierarchy.maps) = 1 => err = NoError

\* C3's case: a file of two maps, one with contacts, was handed to
\* FreeContactParser.write and refused.
C3_Witness ==
    /\ op = "FreeContactParser.write"
    /\ hierarchy.kind = "ContactFile"
    /\ Len(hierarchy.maps) = 2
    /\ hierarchy.maps[1].contacts # <<>>
    /\ err # NoError

ReadDone == op \in {"FreeContactParser.read", "BCLContactParser.read"}

\* The field count of the format of the read made last.
FormatFields == IF op = "BCLContactParser.read" THEN 10 ELSE 6

WrongCount(line) == ~IsBlank(line) /\ FieldCount(line) # FormatFields

\* The exception names the line: it carries the line's text.
IdentifiesLine(e, line) == e.literal = line \/ e.literal = rstrip(line)

\* C4 as claimed: blank lines are skipped; the first non-blank line with a
\* wrong field count aborts the read with an error that identifies the line,
\* no hierarchy is returned and no later line is taken.
C4_WrongCountIdentified ==
    ReadDone =>
        \A i \in 1..Len(f_in) :
            (WrongCount(f_in[i]) /\ \A j \in 1..(i - 1) : ~WrongCount(f_in[j])) =>
                /\ err # NoError
                /\ hierarchy = NoHierarchy
                /\ lines_read <= i
                /\ lines_read = i => IdentifiesLine(err, f_in[i])

\* What holds of C4 in the code: the same without the error naming the line,
\* and blank lines never fail a read nor add a contact.
C4_WrongCountAborts ==
    ReadDone =>
        /\ \A i \in 1..Len(f_in) :
              (WrongCount(f_in[i]) /\ \A j \in 1..(i - 1) : ~WrongCount(f_in[j])) =>
                  /\ err.type = "ValueError" \/ err.type = "DuplicateKeyError"
                  /\ hierarchy = NoHierarchy
                  /\ lines_read <= i
        /\ err # NoError => ~IsBlank(f_in[lines_read])
        /\ err = NoError =>
              /\ lines_read = Len(f_in)
              /\ Len(hierarchy.maps[1].contacts) = Len(NonBlank(f_in))

\* The BCL::Contact line as the claim lays it out: nine fields, the score
\* after four unused ones.
Layout9(line) ==
    LET f == Fields(line) IN
    Len(f) = 9 /\ IntOk(f[1]) /\ IntOk(f[3]) /\ FloatOk(f[9])

\* The BCL::Contact line as the code takes it: ten fields, the score after
\* five unused ones.
Layout10(line) ==
    LET f == Fields(line) IN
    Len(f) = 10 /\ IntOk(f[1]) /\ IntOk(f[3]) /\ FloatOk(f[10])

\* The contacts of the single map are those of the non-blank lines, in file
\* order, with the score taken from field k.
ContactsFromField(k) ==
    LET x == NonBlank(f_in) IN
    /\ err = NoError
    /\ Len(hierarchy.maps) = 1
    /\ Len(hierarchy.maps[1].contacts) = Len(x)
    /\ \A i \in 1..Len(x) :
          LET f == Fields(x[i]) IN
          hierarchy.maps[1].contacts[i]
              = Contact(IntVal(f[1]), IntVal(f[3]), FloatVal(f[k]), f[2], f[4])

\* C5 as claimed: lines of res1_seq, res1, res2_seq, res2, four unused fields
\* and raw_score are accepted, one contact each, in file order.
C5_ScoreAfterFourUnused ==
    ( /\ op = "BCLContactParser.read"
      /\ \A i \in 1..Len(f_in) : IsBlank(f_in[i]) \/ Layout9(f_in[i])
      /\ DistinctPairs(NonBlank(f_in)) )
    => ContactsFromField(9)

\* C5 as amended: lines of res1_seq, res1, res2_seq, res2, five unused fields
\* and raw_score (the tenth field) are accepted, one contact each, in file
\* order.
C5_ScoreAfterFiveUnused ==
    ( /\ op = "BCLContactParser.read"
      /\ \A i \in 1..Len(f_in) : IsBlank(f_in[i]) \/ Layout10(f_in[i])
      /\ DistinctPairs(NonBlank(f_in)) )
    => ContactsFromField(10)

\* C5's case: two ten-column lines were read, one of them with a ninth field
\* that is no number.
C5_Witness ==
    /\ op = "BCLContactParser.read"
    /\ Len(f_in) = 2
    /\ \A i \in 1..Len(f_in) : Layout10(f_in[i])
    /\ \E i \in 1..Len(f_in) : ~FloatOk(Fields(f_in[i])[9])
    /\ err = NoError

\* C6: FreeContactParser.write on a ContactFile of exactly one map writes one
\* line per contact, in the map's order, each of res1_seq, res1, res2_seq,
\* res2, raw_score and the literal 0 separated by single spaces, and nothing
\* else.
C6_OneLinePerContact ==
    ( /\ op = "FreeContactParser.write"
      /\ hierarchy.kind = "ContactFile"
      /\ Len(hierarchy.maps) = 1 )
    => LET cs == hierarchy.maps[1].contacts IN
       /\ err = NoError
       /\ Len(f_out) = Len(f_pre) + Len(cs)
       /\ SubSeq(f_out, 1, Len(f_pre)) = f_pre
       /\ \A i \in 1..Len(cs) :
             f_out[Len(f_pre) + i]
                 = Join(<<IntStr(cs[i].res1_seq), cs[i].res1, IntStr(cs[i].res2_seq),
                          cs[i].res2, FloatStr(cs[i].raw_score), <<"0">> >>, SP) \o os_linesep

\* C6's case: a map of two contacts was written.
C6_Witness ==
    /\ op = "FreeContactParser.write"
    /\ hierarchy.kind = "ContactFile"
    /\ Len(hierarchy.maps) = 1
    /\ Len(hierarchy.maps[1].contacts) = 2
    /\ Len(f_out) = Len(f_pre) + 2

\* ------------------------------------------------- the figure's properties

Values(x) == {x[i] : i \in 1..Len(x)}

\* C8: after a draw(), no coordinate set that it plotted and no value that enters the axis
\* limits and ticks is the _Gap sentinel, whichever of the three maps it
\* comes from.
C8_NoGapPlotted ==
    drawn.err = NoError =>
    /\ \A k \in 1..Len(drawn.scatters) :
          GapIdentifier \notin Values(drawn.scatters[k].x) \cup Values(drawn.scatters[k].y)
    /\ GapIdentifier \notin Values(drawn.min_max_data)
    /\ drawn.xlim # <<>> => drawn.xlim[1] # GapIdentifier /\ drawn.xlim[2] # GapIdentifier

\* What holds of C8 in the code: the contacts of the main hierarchy and of
\* the other map that have a gap are left out of the plotted coordinates.
C8_NoGapFromHierarchyOrOther ==
    \A k \in 1..Len(drawn.scatters) :
        \/ (drawn.scatters[k].color # <<>> /\ drawn.scatters[k].color[1] = "STRUCTURAL")
        \/ GapIdentifier \notin Values(drawn.scatters[k].x) \cup Values(drawn.scatters[k].y)

\* The contacts of a map that draw() plots, in order.
Plotted(h) ==
    SelectSeq(h, LAMBDA c : c.res1_seq # GapIdentifier /\ c.res2_seq # GapIdentifier)

Classified(c) == IF c.is_match THEN "MATCH" ELSE IF c.is_mismatch THEN "MISMATCH" ELSE "GENERAL"

\* The colours of a scatter call are as many as its points, and the i-th is
\* the one of the i-th plotted contact of h.
ColoursFollow(call, h) ==
    /\ Len(call.color) = Len(call.x)
    /\ \A i \in 1..Len(call.x) :
          i <= Len(call.color) => call.color[i] = Classified(Plotted(h)[i])

\* The scatter calls of the last draw() after those of the reference map.
OwnScatters ==
    SubSeq(drawn.scatters, (IF figure.reference # <<>> THEN 3 ELSE 1), Len(drawn.scatters))

\* The figure stands and what is drawn is the drawing of its maps.
DrawnOfFigure == figure # NoFigure /\ fig_op \in {"ContactMapFigure", "draw"}

\* C12: in every scatter call of the main hierarchy and of the other map the
\* colours are as many as the points and the i-th colour is the one of the
\* i-th plotted contact, gapped contacts in the map or not.
C12_ColoursFollowPoints ==
    DrawnOfFigure =>
        /\ Len(OwnScatters) >= 1 => ColoursFollow(OwnScatters[1], figure.hierarchy)
        /\ Len(OwnScatters) >= 2 =>
              ColoursFollow(OwnScatters[2],
                            IF figure.other # <<>> THEN figure.other ELSE figure.hierarchy)

HasGap(h) == Plotted(h) # h

\* What holds of C12 in the code: the same for the maps without a gapped
\* contact.
C12_ColoursFollowPointsWithoutGap ==
    DrawnOfFigure =>
        /\ (Len(OwnScatters) >= 1 /\ ~HasGap(figure.hierarchy))
              => ColoursFollow(OwnScatters[1], figure.hierarchy)
        /\ (Len(OwnScatters) >= 2 /\ figure.other # <<>> /\ ~HasGap(figure.other))
              => ColoursFollow(OwnScatters[2], figure.other)
        /\ (Len(OwnScatters) >= 2 /\ figure.other = <<>> /\ ~HasGap(figure.hierarchy))
              => ColoursFollow(OwnScatters[2], figure.hierarchy)

\* C13: whenever draw() comes to the ticks with residue numbers to take them
\* from (a map that is not empty, or a lim whose range is not empty), the
\* tick step is at least 1 and the tick range is made, whatever the span.
C13_TickStepAtLeastOne ==
    drawn.min_max_data # <<>> =>
        /\ drawn.gap >= 1
        /\ drawn.err = NoError

\* What holds of C13 in the code: the same for a span of 10 or more; for a
\* smaller span the step is 0 and draw() raises.
C13_TickStepBySpan ==
    drawn.min_max_data # <<>> =>
        LET span == SeqMax(drawn.min_max_data) - SeqMin(drawn.min_max_data) IN
        IF span >= 10
        THEN /\ drawn.gap >= 1
             /\ drawn.err = NoError
             /\ drawn.tick_range # <<>>
             /\ drawn.tick_range[1] = SeqMin(drawn.min_max_data)
        ELSE /\ drawn.gap = 0
             /\ drawn.err # NoError
             /\ drawn.tick_range = <<>>

\* C11: redraw() warns of the deprecation and then does what draw() does on
\* the same figure, and ends as draw() ends.
C11_RedrawIsDraw ==
    fig_op = "redraw" =>
        /\ warned # <<>>
        /\ drawn = ContactMapFigure_draw(figure)
        /\ fig_err = ContactMapFigure_draw(figure).err

\* What holds of C11 in the code: redraw() warns, and then always ends with
\* a NameError, with nothing drawn anew.
C11_RedrawWarnsAndRaises ==
    fig_op = "redraw" =>
        /\ warned = <<"This method has been deprecated, use draw() instead">>
        /\ fig_err.type = "NameError"

\* ------------------------------------------------ conkit-predict's properties

InTrace(e) == \E i \in 1..Len(trace) : trace[i] = e

\* Every e in the trace has one of the events of S before it.
Preceded(e, S) ==
    \A i \in 1..Len(trace) : trace[i] = e => \E j \in 1..(i - 1) : trace[j] \in S

\* The files main or a program it runs writes.
OutputFiles == {"jones", "fasta", "hhr", "freq.pdf", "cmap.pdf", "rr"}

\* C7: a format name is matched without regard to case, and a name whose
\* lower-case form is not registered makes main fail before any conversion,
\* any executable and any output file.
C7_UnregisteredFormatFailsFirst ==
    pc \notin {"start", "check"} =>
        IF lower(args.format) \in SEQUENCE_FILE_PARSERS
        THEN ~(main_err.type = "ValueError" /\ main_err.msg = "Sequence format not yet implemented")
        ELSE /\ pc = "raised"
             /\ main_err.type = "ValueError"
             /\ trace = <<>>
             /\ files \cap OutputFiles = {}

\* C7's case: main has refused a name with capitals that is no format, in a
\* directory that holds the input file.
C7_Witness ==
    /\ pc = "raised"
    /\ args.format = <<"F", "A", "S", "T">>
    /\ "input" \in files

Selected == InTrace("select")

Far(c) == Abs(c.res1_seq - c.res2_seq) >= 5

In(c, contacts) == \E i \in 1..Len(contacts) : contacts[i] = c

IndexIn(c, contacts) == CHOOSE i \in 1..Len(contacts) : contacts[i] = c

CountFar == Cardinality({i \in 1..Len(cmap_in) : Far(cmap_in[i])})

\* The part of C9 about the selected contacts themselves.
TopSelection ==
    /\ Len(cmap) = IF seq_len < CountFar THEN seq_len ELSE CountFar
    /\ \A i \in 1..Len(cmap) : Far(cmap[i]) /\ In(cmap[i], cmap_in)
    /\ \A i, j \in 1..Len(cmap) :
          i < j => /\ cmap[i] # cmap[j]
                   /\ cmap[i].raw_score >= cmap[j].raw_score
                   /\ cmap[i].raw_score = cmap[j].raw_score
                         => IndexIn(cmap[i], cmap_in) < IndexIn(cmap[j], cmap_in)

\* C9 as claimed: the selection holds min(L, m) contacts, all at a distance
\* of 5 or more, by falling score, ties in their original order, and no
\* excluded contact scores higher than an included one.
C9_TopL_NoExcludedHigher ==
    Selected =>
        /\ TopSelection
        /\ \A i \in 1..Len(cmap_in), j \in 1..Len(cmap) :
              ~In(cmap_in[i], cmap) => cmap_in[i].raw_score <= cmap[j].raw_score

\* C9 as amended: the same, with the last part for the excluded contacts at
\* a distance of 5 or more only.
C9_TopL_NoExcludedFarHigher ==
    Selected =>
        /\ TopSelection
        /\ \A i \in 1..Len(cmap_in), j \in 1..Len(cmap) :
              (~In(cmap_in[i], cmap) /\ Far(cmap_in[i]))
                  => cmap_in[i].raw_score <= cmap[j].raw_score

\* C9's case: four contacts, three of them far enough, two selected; a
\* neighbouring pair scores highest and a far pair is cut by the slice.
C9_Witness ==
    /\ Selected
    /\ Len(cmap_in) = 4
    /\ CountFar = 3
    /\ seq_len = 2
    /\ Len(cmap) = 2
    /\ \E i \in 1..4 : ~Far(cmap_in[i]) /\ cmap_in[i].raw_score > cmap[1].raw_score
    /\ \E i \in 1..4 : Far(cmap_in[i]) /\ cmap_in[i].raw_score = cmap[2].raw_score
                          /\ ~In(cmap_in[i], cmap)

\* C10: CCMpred runs only after the Jones alignment exists and was read for
\* its statistics; the matrix is read and the RR file written only after the
\* CCMpred step; with a sequence HHblits comes before the a3m conversion;
\* with --nodca main returns after the statistics; with --demo no executable
\* is run.
C10_PipelineOrder ==
    /\ Preceded("exec:ccmpred", {"read:jones"})
    /\ Preceded("exec:ccmpred", {"nseqs"})
    /\ Preceded("exec:ccmpred", {"meff"})
    /\ InTrace("exec:ccmpred") => jon_fname \in files
    /\ Preceded("read:mat", {"exec:ccmpred", "assert:mat"})
    /\ Preceded("convert:mat->rr", {"exec:ccmpred", "assert:mat"})
    /\ "rr" \in files => InTrace("exec:ccmpred") \/ InTrace("assert:mat")
    /\ Preceded("convert:a3m->jones", {"exec:hhblits", "assert:a3m"})
    /\ ~args.demo => Preceded("convert:a3m->jones", {"exec:hhblits"})
    /\ (args.which = "sequence" /\ args.nodca) =>
          /\ ~InTrace("exec:ccmpred") /\ ~InTrace("assert:mat")
          /\ ~InTrace("read:mat") /\ ~InTrace("convert:mat->rr")
          /\ "rr" \notin files
          /\ pc = "done" => trace[Len(trace)] = "plot:coverage"
    /\ args.demo => ~InTrace("exec:hhblits") /\ ~InTrace("exec:ccmpred")

\* C10's case: main has run from a sequence to the RR file, with both
\* executables.
C10_Witness ==
    /\ pc = "done"
    /\ args.which = "sequence"
    /\ ~args.demo
    /\ "rr" \in files
    /\ InTrace("exec:hhblits") /\ InTrace("exec:ccmpred")

\* C10's second case: main has returned at the kill switch.
C10_NoDcaReturned ==
    /\ pc = "done"
    /\ args.nodca
    /\ "rr" \notin files

=============================================================================
